---- MODULE Spec2Model ----
(***************************************************************************)
(* Model of bin/index.js of create-vapor: the scaffolding script that      *)
(* collects a theme name, a store URL and two flags (from argv or from     *)
(* prompts), clones a template, rewrites README.md and package.json,       *)
(* optionally reinitialises git and optionally runs npm install.           *)
(*                                                                         *)
(* JavaScript strings are sequences of one-character strings, so that      *)
(* startsWith, endsWith, split, trim and toLowerCase are computed as the   *)
(* script computes them.                                                   *)
(***************************************************************************)
EXTENDS Naturals, Sequences, FiniteSets

VARIABLES
    args,         \* process.argv.slice(2)
    pc,           \* position of the script
    themeName, storeUrl, initGit, installDeps,
    storeAnswer,  \* last line read by the store URL question (raw)
    rl,           \* readline interface: "none", "open", "closed"
    dir,          \* target directory: "absent", "preexisting", "created"
    readme,       \* <themeName>/README.md
    pkg,          \* <themeName>/package.json
    gitDir,       \* <themeName>/.git: "absent", "template", "fresh"
    cloned,       \* README.md and package.json as the clone delivered them
    trace,        \* pipeline steps executed so far, in order
    output,       \* messages printed so far
    exitCode      \* {} while the process runs, then {its exit code}

vars == <<args, pc, themeName, storeUrl, initGit, installDeps, storeAnswer, rl,
          dir, readme, pkg, gitDir, cloned, trace, output, exitCode>>

----------------------------------------------------------------------------
(* Bounds of the model *)

\* longest argument list explored in non-interactive and help runs
MaxArgs == 3

\* longest argument list explored in interactive runs (where only the help
\* and --non-interactive flags of the list are ever looked at)
MaxInteractiveArgs == 1

----------------------------------------------------------------------------
(* String literals of the script *)

Empty == << >>
Undefined == << "<undefined>" >>

Suffix == << ".", "m", "y", "s", "h", "o", "p", "i", "f", "y", ".", "c", "o", "m" >>
HelpLong == << "-", "-", "h", "e", "l", "p" >>
HelpShort == << "-", "h" >>
NonInteractiveFlag ==
    << "-", "-", "n", "o", "n", "-", "i", "n", "t", "e", "r", "a", "c", "t", "i", "v", "e" >>
StoreLong == << "-", "-", "s", "t", "o", "r", "e", "=" >>
StoreShort == << "-", "s", "=" >>
GitLong == << "-", "-", "g", "i", "t", "=" >>
GitShort == << "-", "g", "=" >>
InstallLong == << "-", "-", "i", "n", "s", "t", "a", "l", "l", "=" >>
InstallShort == << "-", "i", "=" >>
True == << "t", "r", "u", "e" >>
DefaultThemeName ==
    << "s", "h", "o", "p", "i", "f", "y", "-", "c", "u", "s", "t", "o", "m", "-",
       "t", "h", "e", "m", "e" >>
DefaultStoreUrl ==
    << "e", "x", "a", "m", "p", "l", "e", "-", "s", "t", "o", "r", "e" >> \o Suffix

----------------------------------------------------------------------------
(* String functions of JavaScript, as the script uses them *)

StartsWith(s, p) == Len(s) >= Len(p) /\ SubSeq(s, 1, Len(p)) = p

EndsWith(s, p) == Len(s) >= Len(p) /\ SubSeq(s, Len(s) - Len(p) + 1, Len(s)) = p

Includes(list, x) == \E i \in 1..Len(list) : list[i] = x

\* s.split(sep) for a one-character separator
RECURSIVE SplitFrom(_, _, _)
SplitFrom(s, sep, cur) ==
    IF s = Empty THEN << cur >>
    ELSE IF Head(s) = sep THEN << cur >> \o SplitFrom(Tail(s), sep, Empty)
    ELSE SplitFrom(Tail(s), sep, Append(cur, Head(s)))

Split(s, sep) == SplitFrom(s, sep, Empty)

\* arg.split("=")[1]
SplitValue(arg) ==
    LET parts == Split(arg, "=")
    IN IF Len(parts) >= 2 THEN parts[2] ELSE Undefined

IsSpace(c) == c = " "

RECURSIVE TrimStart(_)
TrimStart(s) ==
    IF s # Empty /\ IsSpace(Head(s)) THEN TrimStart(Tail(s)) ELSE s

RECURSIVE TrimEnd(_)
TrimEnd(s) ==
    IF s # Empty /\ IsSpace(s[Len(s)]) THEN TrimEnd(SubSeq(s, 1, Len(s) - 1)) ELSE s

Trim(s) == TrimEnd(TrimStart(s))

LowerChar(c) ==
    CASE c = "T" -> "t"
      [] c = "R" -> "r"
      [] c = "U" -> "u"
      [] c = "E" -> "e"
      [] c = "N" -> "n"
      [] c = "Y" -> "y"
      [] OTHER -> c

ToLowerCase(s) == [i \in 1..Len(s) |-> LowerChar(s[i])]

\* JavaScript truthiness of a string or undefined
Truthy(s) == s # Undefined /\ s # Empty

----------------------------------------------------------------------------
(* Inputs: argument lists, prompt answers, and what the template holds *)

False == << "f", "a", "l", "s", "e" >>
ThemeArg == << "t" >>
BadUrl == << "a" >>
GoodUrl == << "a" >> \o Suffix

ArgPool ==
    { HelpLong, HelpShort, NonInteractiveFlag, ThemeArg, Empty,
      StoreLong \o BadUrl,
      StoreLong \o GoodUrl,
      StoreLong \o << "=" >> \o GoodUrl,
      StoreShort \o GoodUrl \o << "=", "a" >>,
      StoreShort,
      GitLong \o False,
      GitShort \o << "T", "r", "u", "e" >>,
      InstallLong \o False,
      InstallShort \o << "T", "R", "U", "E" >> }

ArgLists == UNION { [1..n -> ArgPool] : n \in 0..MaxArgs }

ThemeAnswers == { Empty, << " ", "t", " " >>, << "t" >> }
StoreAnswers == { Empty, << " " >>, BadUrl, GoodUrl, GoodUrl \o << " " >> }
YesNoAnswers == { Empty, << "n" >>, << " ", "N" >>, << "y" >> }

TemplateName == << "s", "t", "a", "r", "t", "e", "r" >>
TemplateHeading == << "S", "t", "a", "r", "t", "e", "r" >>
OldStore == << "o", "l", "d" >> \o Suffix

NoFile == [kind |-> "absent"]

\* README.md of the template: a file with a "# ..." heading, a file the
\* script cannot write, or an entry that exists and cannot be read
ReadmeStates ==
    { NoFile,
      [kind |-> "file", heading |-> TemplateHeading],
      [kind |-> "readonly", heading |-> TemplateHeading],
      [kind |-> "unreadable"] }

\* package.json of the template: a JSON object with or without config, a
\* file JSON.parse rejects, or a file the script cannot write
PackageStates ==
    { NoFile,
      [kind |-> "invalid"],
      [kind |-> "json", name |-> TemplateName, hasConfig |-> FALSE, shopifyStore |-> Undefined],
      [kind |-> "json", name |-> TemplateName, hasConfig |-> TRUE, shopifyStore |-> OldStore],
      [kind |-> "readonly", name |-> TemplateName, hasConfig |-> FALSE, shopifyStore |-> Undefined] }

Templates == [readme : ReadmeStates, pkg : PackageStates]

NotCloned == [readme |-> NoFile, pkg |-> NoFile]

----------------------------------------------------------------------------
(* Argument parsing *)

\* variant: the short form -h is not recognised
HelpFlagLongOnly(a) == Includes(a, HelpLong)

HelpFlag(a) == Includes(a, HelpLong) \/ Includes(a, HelpShort)

NonInteractive(a) == Includes(a, NonInteractiveFlag)

FirstArg(a) == IF Len(a) >= 1 THEN a[1] ELSE Undefined

\* the body of args.forEach, applied to one argument
ParseArg(cfg, arg) ==
    IF StartsWith(arg, StoreLong) \/ StartsWith(arg, StoreShort)
    THEN [cfg EXCEPT !.storeUrl = SplitValue(arg)]
    ELSE IF StartsWith(arg, GitLong) \/ StartsWith(arg, GitShort)
    THEN [cfg EXCEPT !.initGit = (ToLowerCase(SplitValue(arg)) = True)]
    ELSE IF StartsWith(arg, InstallLong) \/ StartsWith(arg, InstallShort)
    THEN [cfg EXCEPT !.installDeps = (ToLowerCase(SplitValue(arg)) = True)]
    ELSE cfg

RECURSIVE ParseArgs(_, _)
ParseArgs(cfg, a) ==
    IF a = << >> THEN cfg ELSE ParseArgs(ParseArg(cfg, Head(a)), Tail(a))

DefaultConfig == [storeUrl |-> Empty, initGit |-> TRUE, installDeps |-> TRUE]

\* storeUrl && !storeUrl.endsWith(".myshopify.com")
StoreUrlRejected(url) == Truthy(url) /\ ~EndsWith(url, Suffix)

\* variant: the store URL question accepts any answer
PromptUrlNeverRejected(url) == FALSE

\* url && !url.endsWith(".myshopify.com") in the store URL question
PromptUrlRejected(url) == Truthy(url) /\ ~EndsWith(url, Suffix)

\* answer.trim().toLowerCase() !== "n"
Yes(answer) == ToLowerCase(Trim(answer)) # << "n" >>

----------------------------------------------------------------------------
(* Initial state: the process has its argument list and an untouched cwd *)

Init ==
    /\ args \in ArgLists
    /\ (~HelpFlag(args) /\ ~NonInteractive(args)) => Len(args) <= MaxInteractiveArgs
    /\ pc = "start"
    /\ themeName = Undefined
    /\ storeUrl = Empty
    /\ initGit = TRUE
    /\ installDeps = TRUE
    /\ storeAnswer = Undefined
    /\ rl = "none"
    /\ dir \in {"absent", "preexisting"}
    /\ readme = NoFile
    /\ pkg = NoFile
    /\ gitDir = "absent"
    /\ cloned = NotCloned
    /\ trace = << >>
    /\ output = {}
    /\ exitCode = {}

fsVars == <<dir, readme, pkg, gitDir, cloned>>
cfgVars == <<themeName, storeUrl, initGit, installDeps>>

\* process.exit(code)
Exit(code) == pc' = "exited" /\ exitCode' = {code}

\* an exception nobody catches ends the process with exit code 1
Crash ==
    /\ output' = output \cup {"uncaughtException"}
    /\ Exit(1)

----------------------------------------------------------------------------
(* Input collection *)

\* --help or -h anywhere in the list: usage, exit 0
ShowHelp ==
    /\ pc = "start"
    /\ HelpFlag(args)
    /\ output' = output \cup {"usage"}
    /\ Exit(0)
    /\ UNCHANGED <<args, cfgVars, storeAnswer, rl, fsVars, trace>>

\* --non-interactive: theme name from args[0], the rest from the flags
ParseNonInteractive ==
    /\ pc = "start"
    /\ ~HelpFlag(args)
    /\ NonInteractive(args)
    /\ themeName' = FirstArg(args)
    /\ IF ~Truthy(FirstArg(args))
       THEN /\ output' = output \cup {"errThemeRequired"}
            /\ Exit(1)
            /\ UNCHANGED <<storeUrl, initGit, installDeps>>
       ELSE LET cfg == ParseArgs(DefaultConfig, args)
            IN /\ storeUrl' = cfg.storeUrl
               /\ initGit' = cfg.initGit
               /\ installDeps' = cfg.installDeps
               /\ IF StoreUrlRejected(cfg.storeUrl)
                  THEN /\ output' = output \cup {"errStoreUrl"}
                       /\ Exit(1)
                  ELSE /\ pc' = "mkdir"
                       /\ UNCHANGED <<output, exitCode>>
    /\ UNCHANGED <<args, storeAnswer, rl, fsVars, trace>>

\* otherwise: open the readline interface and ask the first question
StartInteractive ==
    /\ pc = "start"
    /\ ~HelpFlag(args)
    /\ ~NonInteractive(args)
    /\ themeName' = FirstArg(args)
    /\ rl' = "open"
    /\ pc' = "promptThemeName"
    /\ UNCHANGED <<args, storeUrl, initGit, installDeps, storeAnswer, fsVars,
                   trace, output, exitCode>>

PromptThemeName ==
    /\ pc = "promptThemeName"
    /\ \E answer \in ThemeAnswers :
          themeName' = (IF Truthy(Trim(answer)) THEN Trim(answer) ELSE DefaultThemeName)
    /\ pc' = "promptStoreUrl"
    /\ UNCHANGED <<args, storeUrl, initGit, installDeps, storeAnswer, rl, fsVars,
                   trace, output, exitCode>>

PromptStoreUrl ==
    /\ pc = "promptStoreUrl"
    /\ \E answer \in StoreAnswers :
          LET url == Trim(answer)
          IN /\ storeAnswer' = answer
             /\ IF PromptUrlRejected(url)
                THEN /\ output' = output \cup {"retryStoreUrl"}
                     /\ UNCHANGED <<pc, storeUrl>>
                ELSE /\ storeUrl' = (IF Truthy(url) THEN url ELSE DefaultStoreUrl)
                     /\ pc' = "promptGitInit"
                     /\ UNCHANGED output
    /\ UNCHANGED <<args, themeName, initGit, installDeps, rl, fsVars, trace, exitCode>>

PromptGitInit ==
    /\ pc = "promptGitInit"
    /\ \E answer \in YesNoAnswers : initGit' = Yes(answer)
    /\ pc' = "promptInstallDeps"
    /\ UNCHANGED <<args, themeName, storeUrl, installDeps, storeAnswer, rl, fsVars,
                   trace, output, exitCode>>

\* the last answer, then rl.close() and the end of promptUser
PromptInstallDeps ==
    /\ pc = "promptInstallDeps"
    /\ \E answer \in YesNoAnswers : installDeps' = Yes(answer)
    /\ rl' = "closed"
    /\ pc' = "mkdir"
    /\ UNCHANGED <<args, themeName, storeUrl, initGit, storeAnswer, fsVars,
                   trace, output, exitCode>>

----------------------------------------------------------------------------
(* The pipeline *)

\* if (!fs.existsSync(themeName)) fs.mkdirSync(themeName)
CreateDirectory ==
    /\ pc = "mkdir"
    /\ trace' = Append(trace, "mkdir")
    /\ IF dir = "absent"
       THEN \E made \in BOOLEAN :
               IF made
               THEN /\ dir' = "created"
                    /\ pc' = "clone"
                    /\ UNCHANGED <<output, exitCode>>
               ELSE /\ Crash
                    /\ UNCHANGED dir
       ELSE /\ pc' = "clone"
            /\ UNCHANGED <<dir, output, exitCode>>
    /\ UNCHANGED <<args, cfgVars, storeAnswer, rl, readme, pkg, gitDir, cloned>>

\* variant: a failed clone does not stop the script
AfterCloneContinues(success) == "update"

\* where the script goes after runCommand(gitCheckoutCommand)
AfterClone(success) == IF success THEN "update" ELSE "exited"

CloneRepository ==
    /\ pc = "clone"
    /\ trace' = Append(trace, "clone")
    /\ \E success \in BOOLEAN, tpl \in Templates :
          /\ pc' = AfterClone(success)
          /\ IF success
             THEN /\ readme' = tpl.readme
                  /\ pkg' = tpl.pkg
                  /\ gitDir' = "template"
                  /\ cloned' = tpl
                  /\ output' = output \cup {"cloneOk"}
                  /\ UNCHANGED exitCode
             ELSE /\ output' = output \cup {"cloneFailed"}
                  /\ exitCode' = {1}
                  /\ UNCHANGED <<readme, pkg, gitDir, cloned>>
    /\ UNCHANGED <<args, cfgVars, storeAnswer, rl, dir>>

\* README.md after readmeContent.replace(/# .*/, `# ${themeName}`) is written
RewriteReadme(file, name) == [file EXCEPT !.heading = name]

\* package.json after name and config.shopifyStore are set and it is written
RewritePackage(file, name, url) ==
    IF Truthy(url)
    THEN [file EXCEPT !.name = name, !.hasConfig = TRUE, !.shopifyStore = url]
    ELSE [file EXCEPT !.name = name]

\* the README.md half of the try block throws
ReadmeThrows(file) == file.kind \in {"unreadable", "readonly"}

\* the package.json half of the try block throws
PackageThrows(file) == file.kind \in {"invalid", "readonly"}

UpdateProjectFiles ==
    /\ pc = "update"
    /\ trace' = Append(trace, "update")
    /\ readme' = (IF readme.kind = "file" THEN RewriteReadme(readme, themeName) ELSE readme)
    /\ pkg' = (IF ~ReadmeThrows(readme) /\ pkg.kind = "json"
               THEN RewritePackage(pkg, themeName, storeUrl)
               ELSE pkg)
    /\ output' = output \cup
          (IF ReadmeThrows(readme) \/ PackageThrows(pkg)
           THEN {"updateFailed"} ELSE {"updateOk"})
    /\ pc' = "git"
    /\ UNCHANGED <<args, cfgVars, storeAnswer, rl, dir, gitDir, cloned, exitCode>>

\* if (initGit)
RunsGitStep(flag) == flag

\* rm -rf of the template's .git (not caught), then git init, add and commit
InitializeGit ==
    /\ pc = "git"
    /\ RunsGitStep(initGit)
    /\ trace' = Append(trace, "git")
    /\ \E removed \in BOOLEAN, result \in {"ok", "initFailed", "commitFailed"} :
          IF gitDir # "absent" /\ ~removed
          THEN /\ Crash
               /\ UNCHANGED gitDir
          ELSE /\ gitDir' = (IF result = "initFailed" THEN "absent" ELSE "fresh")
               /\ output' = output \cup (IF result = "ok" THEN {"gitOk"} ELSE {"gitFailed"})
               /\ pc' = "install"
               /\ UNCHANGED exitCode
    /\ UNCHANGED <<args, cfgVars, storeAnswer, rl, dir, readme, pkg, cloned>>

SkipGit ==
    /\ pc = "git"
    /\ ~RunsGitStep(initGit)
    /\ pc' = "install"
    /\ UNCHANGED <<args, cfgVars, storeAnswer, rl, fsVars, trace, output, exitCode>>

\* variant: the install step is not gated by the flag
RunsInstallStepAlways(flag) == TRUE

\* if (installDeps)
RunsInstallStep(flag) == flag

InstallDependencies ==
    /\ pc = "install"
    /\ RunsInstallStep(installDeps)
    /\ trace' = Append(trace, "install")
    /\ \E success \in BOOLEAN :
          output' = output \cup (IF success THEN {"installOk"} ELSE {"installFailed"})
    /\ pc' = "complete"
    /\ UNCHANGED <<args, cfgVars, storeAnswer, rl, fsVars, exitCode>>

SkipInstall ==
    /\ pc = "install"
    /\ ~RunsInstallStep(installDeps)
    /\ pc' = "complete"
    /\ UNCHANGED <<args, cfgVars, storeAnswer, rl, fsVars, trace, output, exitCode>>

\* if (!installDeps) console.log("  npm install")
PrintsReminder(flag) == ~flag

\* the closing messages; the script ends and the process exits with 0
CompletionMessage ==
    /\ pc = "complete"
    /\ trace' = Append(trace, "complete")
    /\ output' = output \cup {"success"} \cup
          (IF PrintsReminder(installDeps) THEN {"npmInstallReminder"} ELSE {})
    /\ Exit(0)
    /\ UNCHANGED <<args, cfgVars, storeAnswer, rl, fsVars>>

Next ==
    \/ ShowHelp
    \/ ParseNonInteractive
    \/ StartInteractive
    \/ PromptThemeName
    \/ PromptStoreUrl
    \/ PromptGitInit
    \/ PromptInstallDeps
    \/ CreateDirectory
    \/ CloneRepository
    \/ UpdateProjectFiles
    \/ InitializeGit
    \/ SkipGit
    \/ InstallDependencies
    \/ SkipInstall
    \/ CompletionMessage

Spec == Init /\ [][Next]_vars

----------------------------------------------------------------------------
(* Vocabulary of the properties *)

InTrace(step) == \E i \in 1..Len(trace) : trace[i] = step

IsPrefix(s, t) == Len(s) <= Len(t) /\ SubSeq(t, 1, Len(s)) = s

AsksHelp(a) == \E i \in 1..Len(a) : a[i] \in {HelpLong, HelpShort}

AsksNonInteractive(a) == \E i \in 1..Len(a) : a[i] = NonInteractiveFlag

IsStoreArg(arg) == StartsWith(arg, StoreLong) \/ StartsWith(arg, StoreShort)

StoreArgs(a) == { i \in 1..Len(a) : IsStoreArg(a[i]) }

\* the text written after --store= or -s=
SuppliedValue(arg) ==
    IF StartsWith(arg, StoreLong)
    THEN SubSeq(arg, Len(StoreLong) + 1, Len(arg))
    ELSE SubSeq(arg, Len(StoreShort) + 1, Len(arg))

\* the first argument is a positional theme name
HasThemeName(a) == Len(a) >= 1 /\ a[1] # Empty /\ ~StartsWith(a[1], << "-" >>)

\* nothing of the pipeline has happened
NothingDone ==
    /\ trace = << >>
    /\ dir # "created"
    /\ readme = NoFile /\ pkg = NoFile /\ gitDir = "absent"

LaterStepOutput ==
    {"updateOk", "updateFailed", "gitOk", "gitFailed", "installOk", "installFailed",
     "success", "npmInstallReminder"}

\* the steps a complete run executes, given the two flags
ExpectedSteps ==
    << "mkdir", "clone", "update" >>
    \o (IF initGit THEN << "git" >> ELSE << >>)
    \o (IF installDeps THEN << "install" >> ELSE << >>)
    \o << "complete" >>

----------------------------------------------------------------------------
(* Properties *)

\* C1 (as claimed): in non-interactive mode, when the value written after
\* --store= or -s= is non-empty and does not end with ".myshopify.com", the
\* process exits with code 1 before any filesystem mutation.  Stated for the
\* lists that name a theme and hold one store flag.
C1_BadStoreValueExitsBeforeMutation ==
    \A i \in 1..Len(args) :
        ( /\ pc # "start"
          /\ AsksNonInteractive(args) /\ ~AsksHelp(args) /\ HasThemeName(args)
          /\ StoreArgs(args) = {i}
          /\ SuppliedValue(args[i]) # Empty
          /\ ~EndsWith(SuppliedValue(args[i]), Suffix) )
        => (pc = "exited" /\ exitCode = {1} /\ NothingDone)

\* C2 (as claimed): an argument list with --non-interactive and no positional
\* theme name (every argument is a flag) reports an error and exits with code 1
\* before creating a directory or cloning.
C2_MissingThemeNameExits ==
    ( /\ pc # "start"
      /\ AsksNonInteractive(args) /\ ~AsksHelp(args)
      /\ \A i \in 1..Len(args) : StartsWith(args[i], << "-" >>) )
    => ( /\ pc = "exited" /\ exitCode = {1} /\ NothingDone
         /\ output \cap {"errThemeRequired", "errStoreUrl"} # {} )

\* C3: when the clone command fails the process exits with code 1 and neither
\* the metadata rewrite, the git reinitialisation, the install nor the
\* completion message is executed, whatever initGit and installDeps are.
C3_CloneFailureIsFatal ==
    "cloneFailed" \in output =>
        /\ pc = "exited" /\ exitCode = {1}
        /\ trace = << "mkdir", "clone" >>
        /\ output \cap LaterStepOutput = {}
        /\ readme = NoFile /\ pkg = NoFile /\ gitDir = "absent"

C3_Witness ==
    "cloneFailed" \in output /\ pc = "exited" /\ ~initGit /\ installDeps

\* C4: with --help or -h anywhere in the argument list, whatever else the list
\* holds, the process prints usage and exits with code 0 without prompting,
\* creating a directory, cloning or running any command.
C4_HelpExitsClean ==
    (AsksHelp(args) /\ pc # "start") =>
        /\ pc = "exited" /\ exitCode = {0}
        /\ output = {"usage"}
        /\ rl = "none"
        /\ NothingDone

C4_Witness ==
    /\ pc = "exited"
    /\ Len(args) = 3
    /\ args[1] = NonInteractiveFlag
    /\ args[2] = StoreLong \o BadUrl
    /\ args[3] = HelpShort

\* C5 (as claimed): when initGit is true, a failure of any part of the git
\* reinitialisation (deleting .git, git init, add, commit) is non-fatal: the
\* process does not terminate at that step and reaches the completion message.
C5_GitFailureNonFatal ==
    (initGit /\ InTrace("git") /\ pc = "exited") => "success" \in output

\* C6 (as claimed): for a supplied store URL that ends with ".myshopify.com",
\* once the clone has succeeded and the rewrite of a template with a
\* package.json is done, the manifest has config.shopifyStore equal to exactly
\* the supplied URL and name equal to the theme name.  Stated for the lists
\* that name a theme and hold one store flag, and for the prompt answer.
C6_ManifestCarriesSuppliedUrl ==
    /\ \A i \in 1..Len(args) :
        ( /\ AsksNonInteractive(args) /\ ~AsksHelp(args) /\ HasThemeName(args)
          /\ StoreArgs(args) = {i}
          /\ EndsWith(SuppliedValue(args[i]), Suffix)
          /\ cloned.pkg.kind = "json" /\ "updateOk" \in output )
        => ( /\ pkg.hasConfig /\ pkg.shopifyStore = SuppliedValue(args[i])
             /\ pkg.name = themeName )
    /\ ( /\ rl = "closed"
         /\ EndsWith(storeAnswer, Suffix)
         /\ cloned.pkg.kind = "json" /\ "updateOk" \in output )
       => ( /\ pkg.hasConfig /\ pkg.shopifyStore = storeAnswer
            /\ pkg.name = themeName )

C8_FailedRewriteLeavesFilesUntouched ==
    "updateFailed" \in output => (readme = cloned.readme /\ pkg = cloned.pkg)

\* C9 (as claimed): the final message has the npm install reminder if and only
\* if the run did not install the dependencies: the install step was skipped
\* or the install command failed.
C9_ReminderIffNotInstalled ==
    "success" \in output =>
        ("npmInstallReminder" \in output
            <=> (~installDeps \/ "installFailed" \in output))

\* what holds from directory creation onward: the input stream is not open
\* and storeUrl is empty or ends with ".myshopify.com"
StoreUrlSettled ==
    trace # << >> =>
        /\ rl # "open"
        /\ (storeUrl = Empty \/ EndsWith(storeUrl, Suffix))

\* C10 (as claimed): every non-empty answer to the store URL question that does
\* not end with ".myshopify.com" causes the same question again and nothing
\* else.
C10_RawAnswerReprompts ==
    [][ ( /\ pc = "promptStoreUrl"
          /\ storeAnswer' # Empty
          /\ ~EndsWith(storeAnswer', Suffix) )
        => ( /\ pc' = "promptStoreUrl"
             /\ UNCHANGED <<cfgVars, rl, fsVars, trace, exitCode>> ) ]_vars

\* C10 (amended): every answer to the store URL question that, with the
\* surrounding whitespace removed, is non-empty and does not end with
\* ".myshopify.com" causes the same question again and nothing else; the
\* collector moves on only after an answer that, trimmed, is empty (storeUrl
\* becomes the default) or ends with the suffix (storeUrl becomes the trimmed
\* answer); the input stream is closed before the directory is created, and
\* from directory creation onward storeUrl is empty or ends with the suffix.
C10_TrimmedAnswerReprompts ==
    /\ [][ /\ ( /\ pc = "promptStoreUrl"
                /\ Trim(storeAnswer') # Empty
                /\ ~EndsWith(Trim(storeAnswer'), Suffix) )
              => ( /\ pc' = "promptStoreUrl"
                   /\ UNCHANGED <<cfgVars, rl, fsVars, trace, exitCode>> )
           /\ (pc = "promptStoreUrl" /\ pc' # "promptStoreUrl")
              => ( /\ pc' = "promptGitInit"
                   /\ storeUrl' = (IF Trim(storeAnswer') = Empty
                                   THEN DefaultStoreUrl ELSE Trim(storeAnswer'))
                   /\ EndsWith(storeUrl', Suffix)
                   /\ UNCHANGED <<themeName, initGit, installDeps, rl, fsVars,
                                  trace, exitCode>> ) ]_vars
    /\ []StoreUrlSettled

C10_Witness ==
    /\ "retryStoreUrl" \in output
    /\ storeAnswer = GoodUrl \o << " " >>
    /\ storeUrl = GoodUrl
    /\ rl = "closed"
    /\ dir = "created"

====
